---- MODULE Spec2Model ----
(***************************************************************************)
(* Detection pipeline of the HandGesture ACAP: the per-label event gate of *)
(* app/Output.c (Output, Output_DeactivateExpired, Output_reset) and the   *)
(* crop cache of Model.c (Model_GetImageData, Model_Reset, Model_Cleanup,  *)
(* Model_Inference).                                                       *)
(*                                                                         *)
(* Time is the value of ACAP_DEVICE_Timestamp() in milliseconds.  A label  *)
(* is the tuple of its characters; a detection is the record of the cJSON  *)
(* fields the code reads.  Every handler is one atomic action: the program *)
(* runs them from one GLib main loop.                                      *)
(***************************************************************************)
EXTENDS Integers, Sequences, FiniteSets, TLC

(* ---------------- program constants ---------------- *)
MAX_LABELS == 32
MAX_ROLLING == 16
NAME_CHARS == 63
DefaultMinEventDuration == 3000
desired_window_ms == 1000
DefaultMinFrames == 3
MODEL_MAX_CACHED_CROPS == 5
videoWidth == 1280
videoHeight == 720

(* ---------------- bounds of the model ---------------- *)
MaxTime == 4500     \* the clock stops here
MaxCycles == 4      \* Output is called at most this often (cycles counts the calls)

TickSteps == {1500}
AvgTimes == {250}
MinDurationItems == {<<>>, <<1500>>}
FramesItems == {<<>>}

\* The labels whose events are observed.
FrameLabels == {<<1>>, <<2>>}
\* Model_Inference stops handing out refIds after this one.
MaxRefId == 6
\* The evidence requests stop allocating at this many unfreed JPEG buffers.
MaxJpegLive == 7
RefIds == 1..MaxRefId
\* The contents an HD frame can have.
FrameContents == {1, 2}
\* The labels of a crowded first frame: MAX_LABELS - 1 further classes.
CrowdLabels == {<<0, c>> : c \in 1..(MAX_LABELS - 1)}

VARIABLES
    now,            \* ACAP_DEVICE_Timestamp()
    settings,       \* ACAP_Get_Config("settings")
    eventsCache,    \* eventsCache[0 .. eventsCache_len-1]
    fired,          \* the events published by the handler that just ran, in order
    riseTime,       \* history: when the open event of a tracked label rose
    seenAt,         \* history: when a tracked label was last detected
    streak,         \* history: consecutive window-4 accuracy cycles with the label
    appeared,       \* history: per label, was it in the frame of each recent cycle
    restarted,      \* history: running since a set-up of a model stopped with a spent budget
    openEvents,     \* history: labels whose last event since the last reset was a rising one
    outputPc,       \* where a cycle of Output that runs statement by statement stands
    cropCache,      \* cropCache[0 .. numCropCache-1]
    original_rgb_buffer,  \* 0 = NULL, else the content of the HD frame it points to
    result,         \* what the last Model_GetImageData call handed to its caller
    cycles,         \* how often Output has been called
    inferenceErrors,  \* the error budget of Model_Inference
    currentRefId,   \* the next refId Model_Inference hands out
    modelState,     \* ACAP_STATUS_Bool("model", "state")
    detections,     \* what the last Model_Inference call returned: <<>> = 0 (no
                    \* list), <<list>> = a cJSON array
    decoded,        \* the list the last Model_Inference call built in its decode
                    \* loop, before suppression (empty when it built none)
    output_tensor,  \* the rows of larodOutput1Addr that a specification spells out
                    \* byte by byte (<<>> where it hands over the passing rows)
    jpegLive,       \* history: the JPEG buffers buffer_to_jpeg has allocated for
                    \* Model_GetImageData that have not been passed to free()
    served          \* history: the evidence last returned for a refId since the
                    \* crop cache was last cleared

vars == <<now, settings, eventsCache, fired, riseTime, seenAt, streak,
          cropCache, original_rgb_buffer, result, cycles,
          inferenceErrors, currentRefId, modelState, served, detections, decoded,
          jpegLive, output_tensor, appeared, restarted, openEvents, outputPc>>

\* No cycle of Output is under way.
Idle == [at |-> "idle", t |-> 0, evt |-> 0]

(* ---------------- helpers ---------------- *)
Min(a, b) == IF a < b THEN a ELSE b

\* cJSON_GetObjectItem(..) ? ..->value : default
ItemOr(item, default) == IF item = <<>> THEN default ELSE item[1]

\* strncpy(dst, label, 63); dst[63] = 0
Trunc(label) == SubSeq(label, 1, Min(Len(label), NAME_CHARS))

RECURSIVE SumTo(_, _)
SumTo(f, n) == IF n = 0 THEN 0 ELSE f[n - 1] + SumTo(f, n - 1)

(* ---------------- per-label state ---------------- *)
\* Variant: a new entry takes over a ring count of 2.
NewLabelStateStale(label) ==
    [name |-> Trunc(label), state |-> 0,
     rolling |-> [i \in 0..(MAX_ROLLING - 1) |-> 0],
     rolling_head |-> 0, rolling_count |-> 2, last_detect_time |-> 0]
NewLabelState(label) ==
    [name |-> Trunc(label), state |-> 0,
     rolling |-> [i \in 0..(MAX_ROLLING - 1) |-> 0],
     rolling_head |-> 0, rolling_count |-> 0, last_detect_time |-> 0]

\* Index of the first entry whose name strcmp-equals label, 0 when none.
LabelIndex(cache, label) ==
    IF \E i \in 1..Len(cache) : cache[i].name = label
    THEN CHOOSE i \in 1..Len(cache) :
            /\ cache[i].name = label
            /\ \A j \in 1..(i - 1) : cache[j].name # label
    ELSE 0

\* Variant: a full table gives its last slot to the new label.
FindOrRecycleLabelState(cache, label) ==
    LET i == LabelIndex(cache, label) IN
    IF i # 0 THEN [cache |-> cache, evt |-> i]
    ELSE IF Len(cache) < MAX_LABELS
         THEN [cache |-> Append(cache, NewLabelState(label)), evt |-> Len(cache) + 1]
         ELSE [cache |-> [cache EXCEPT ![MAX_LABELS] = NewLabelState(label)],
               evt |-> MAX_LABELS]
\* evt = 0 stands for the NULL return.
find_or_create_label_state(cache, label) ==
    LET i == LabelIndex(cache, label) IN
    IF i # 0 THEN [cache |-> cache, evt |-> i]
    ELSE IF Len(cache) < MAX_LABELS
         THEN [cache |-> Append(cache, NewLabelState(label)), evt |-> Len(cache) + 1]
         ELSE [cache |-> cache, evt |-> 0]

\* Mutant of the clamp: no upper limit.
ClampWindowLow(w) == IF w < 2 THEN 2 ELSE w

\* "if (window_size < 2) window_size = 2; if (window_size > MAX_ROLLING) ..."
ClampWindow(w) == IF w < 2 THEN 2 ELSE IF w > MAX_ROLLING THEN MAX_ROLLING ELSE w

\* (int)((desired_window_ms + t - 1) / t) for an average time t = n/d ms.
WindowQuotient(n, d) == (desired_window_ms * d + n - d) \div n

WindowSize(averageInferenceTime) == ClampWindow(WindowQuotient(averageInferenceTime, 1))

\* Mutants of the speed gate: one that forgets the time stamp when it raises
\* the label, one that forgets it when the label is HIGH already.
SpeedGateNoStamp(e, t) ==
    IF e.state = 0
    THEN [e EXCEPT !.state = 1]
    ELSE [e EXCEPT !.last_detect_time = t]

SpeedGateNoRefresh(e, t) ==
    IF e.state = 0
    THEN [e EXCEPT !.state = 1, !.last_detect_time = t]
    ELSE e

SpeedGate(e, t) ==
    IF e.state = 0
    THEN [e EXCEPT !.state = 1, !.last_detect_time = t]
    ELSE [e EXCEPT !.last_detect_time = t]

RollPush(e, bit, window_size) ==
    LET h == (e.rolling_head + 1) % window_size IN
    [e EXCEPT !.rolling_head = h,
              !.rolling = [@ EXCEPT ![h] = bit],
              !.rolling_count = IF @ < window_size THEN @ + 1 ELSE @]

RollingSum(e) == SumTo(e.rolling, e.rolling_count)

\* Mutant of the accuracy gate: a label that is HIGH already keeps its old
\* time stamp.
AccuracyGateNoRefresh(e, t, window_size, min_frames_in_window) ==
    LET p == RollPush(e, 1, window_size) IN
    IF p.state = 0 /\ RollingSum(p) >= min_frames_in_window
    THEN [p EXCEPT !.state = 1, !.last_detect_time = t]
    ELSE IF p.state = 0 THEN [p EXCEPT !.last_detect_time = t] ELSE p

AccuracyGate(e, t, window_size, min_frames_in_window) ==
    LET p == [RollPush(e, 1, window_size) EXCEPT !.last_detect_time = t] IN
    IF p.state = 0 /\ RollingSum(p) >= min_frames_in_window
    THEN [p EXCEPT !.state = 1]
    ELSE p

\* Mutant of the expiry test: the limit itself counts as expired.
ExpiredAtLimit(t, last_detect_time, minEventDuration) ==
    (t - last_detect_time) >= minEventDuration

Expired(t, last_detect_time, minEventDuration) ==
    (t - last_detect_time) > minEventDuration

(* ---------------- crop cache ---------------- *)
CroppingActive(set) == set.present /\ set.cropping # <<>> /\ set.cropping[1].active

\* (int)round(v * dim / 1000.0): halves round away from zero.
RoundScale(v, dim) ==
    IF v >= 0 THEN (2 * v * dim + 1000) \div 2000
    ELSE 0 - ((2 * (0 - v) * dim + 1000) \div 2000)

\* The crop box cut from the source image and the detection box inside it.
CropGeometry(box, leftborder_px, rightborder_px, topborder_px, bottomborder_px) ==
    LET det_pixel_x == RoundScale(box.x, videoWidth)
        det_pixel_y == RoundScale(box.y, videoHeight)
        det_pixel_w == RoundScale(box.w, videoWidth)
        det_pixel_h == RoundScale(box.h, videoHeight)
        x0 == det_pixel_x - leftborder_px
        y0 == det_pixel_y - topborder_px
        w0 == det_pixel_w + leftborder_px + rightborder_px
        h0 == det_pixel_h + topborder_px + bottomborder_px
        w1 == IF x0 < 0 THEN w0 + x0 ELSE w0
        crop_x == IF x0 < 0 THEN 0 ELSE x0
        h1 == IF y0 < 0 THEN h0 + y0 ELSE h0
        crop_y == IF y0 < 0 THEN 0 ELSE y0
        w2 == IF crop_x + w1 > videoWidth THEN videoWidth - crop_x ELSE w1
        h2 == IF crop_y + h1 > videoHeight THEN videoHeight - crop_y ELSE h1
        crop_w == IF w2 < 1 THEN 1 ELSE w2
        crop_h == IF h2 < 1 THEN 1 ELSE h2
        dx0 == det_pixel_x - crop_x
        dy0 == det_pixel_y - crop_y
        dw1 == IF dx0 < 0 THEN det_pixel_w + dx0 ELSE det_pixel_w
        det_x == IF dx0 < 0 THEN 0 ELSE dx0
        dh1 == IF dy0 < 0 THEN det_pixel_h + dy0 ELSE det_pixel_h
        det_y == IF dy0 < 0 THEN 0 ELSE dy0
        dw2 == IF det_x + dw1 > crop_w THEN crop_w - det_x ELSE dw1
        dh2 == IF det_y + dh1 > crop_h THEN crop_h - det_y ELSE dh1
        det_w == IF dw2 < 1 THEN 1 ELSE dw2
        det_h == IF dh2 < 1 THEN 1 ELSE dh2
    IN [crop_x |-> crop_x, crop_y |-> crop_y, crop_w |-> crop_w, crop_h |-> crop_h,
        det_x |-> det_x, det_y |-> det_y, det_w |-> det_w, det_h |-> det_h]

\* The encoder's output for a region of a frame: the bytes are a function of the
\* pixels handed to it, the length is positive.
EncodeJpeg(rgb, g) == <<rgb, g.crop_x, g.crop_y, g.crop_w, g.crop_h>>
\* Variant: the length of a delivered JPEG is reported as 0.
JpegLenZero(g) == 0
JpegLen(g) == g.crop_w * g.crop_h

\* What Model_GetImageData hands back: buf = <<>> is the NULL return.
Absent == [buf |-> <<>>, size |-> 0, x |-> 0, y |-> 0, w |-> 0, h |-> 0,
           img_w |-> 0, img_h |-> 0]

\* Variant: the lookup finds no stored entry.
CacheIndexMiss(crops, refId) == 0
CacheIndex(crops, refId) ==
    IF \E i \in 1..Len(crops) : crops[i].refId = refId
    THEN CHOOSE i \in 1..Len(crops) :
            /\ crops[i].refId = refId
            /\ \A j \in 1..(i - 1) : crops[j].refId # refId
    ELSE 0

\* Mutant of the store: a full cache drops its oldest entry for the new one.
CacheStoreEvict(crops, entry) ==
    IF Len(crops) < MODEL_MAX_CACHED_CROPS
    THEN Append(crops, entry)
    ELSE Append(Tail(crops), entry)

CacheStore(crops, entry) ==
    IF Len(crops) < MODEL_MAX_CACHED_CROPS THEN Append(crops, entry) ELSE crops

\* det = <<>> is a NULL detection; encoded = FALSE is a crop_interleaved or
\* encoder failure.  Yields the cache afterwards and the returned values.
GetImageData(crops, rgb, set, det, encoded) ==
    LET miss == [crops |-> crops, ret |-> Absent] IN
    IF det = <<>> THEN miss
    ELSE IF ~CroppingActive(set) THEN miss
    ELSE IF det[1].refId = <<>> THEN miss
    ELSE
      LET refId == det[1].refId[1]
          i == CacheIndex(crops, refId)
      IN
      IF i # 0
      THEN [crops |-> crops,
            ret |-> [buf |-> <<crops[i].jpeg_buf>>, size |-> crops[i].jpeg_size,
                     x |-> crops[i].crop_x, y |-> crops[i].crop_y,
                     w |-> crops[i].crop_w, h |-> crops[i].crop_h,
                     img_w |-> crops[i].img_w, img_h |-> crops[i].img_h]]
      ELSE IF det[1].box = <<>> THEN miss
      ELSE
        LET c == set.cropping[1]
            g == CropGeometry(det[1].box[1], ItemOr(c.leftborder, 0),
                              ItemOr(c.rightborder, 0), ItemOr(c.topborder, 0),
                              ItemOr(c.bottomborder, 0))
        IN
        IF rgb = 0 THEN miss
        ELSE IF ~encoded THEN miss
        ELSE
          LET jpeg_buf == EncodeJpeg(rgb, g)
              entry == [refId |-> refId, crop_x |-> g.det_x, crop_y |-> g.det_y,
                        crop_w |-> g.det_w, crop_h |-> g.det_h,
                        img_w |-> g.crop_w, img_h |-> g.crop_h,
                        jpeg_buf |-> jpeg_buf, jpeg_size |-> JpegLen(g)]
          IN [crops |-> CacheStore(crops, entry),
              ret |-> [buf |-> <<jpeg_buf>>, size |-> JpegLen(g),
                       x |-> g.det_x, y |-> g.det_y, w |-> g.det_w, h |-> g.det_h,
                       img_w |-> g.crop_w, img_h |-> g.crop_h]]

\* History kept beside a call: the evidence a refId was answered with.
Serve(hist, det, ret) ==
    IF det # <<>> /\ det[1].refId # <<>> /\ ret.buf # <<>>
       /\ det[1].refId[1] \in DOMAIN hist
    THEN [hist EXCEPT ![det[1].refId[1]] = <<ret>>]
    ELSE hist

clear_crop_cache == <<>>
\* Variant: clear_crop_cache forgets the entries without freeing their buffers.
FreedByClearNone(crops) == 0
\* The number of buffers clear_crop_cache passes to free(): one for each entry.
FreedByClear(crops) == Len(crops)
\* 1 when a request ended with a newly encoded JPEG (no cache hit), else 0.
NewJpeg(crops, det, ret) ==
    IF ret.buf # <<>> /\ CacheIndex(crops, det[1].refId[1]) = 0 THEN 1 ELSE 0

(* ---------------- Output: one inference cycle ---------------- *)
Prioritize(set) == ItemOr(set.prioritize, "accuracy")
MinEventDuration(set) == ItemOr(set.minEventDuration, DefaultMinEventDuration)
MinFrames(set) == ItemOr(set.frames, DefaultMinFrames)

Rising(label, t) == [label |-> label, state |-> TRUE, time |-> t]
Falling(name, t) == [label |-> name, state |-> FALSE, time |-> t]

\* The body of the while loop for one detection d; st carries the table, the
\* events published so far, frame_labels[] and the crop cache.
GateDetection(st, d, t, set, window_size, rgb, encoded) ==
    LET labels == IF Len(st.frame_labels) < MAX_LABELS
                  THEN Append(st.frame_labels, Trunc(d.label))
                  ELSE st.frame_labels
        fc == find_or_create_label_state(st.cache, d.label)
    IN
    IF fc.evt = 0 THEN [st EXCEPT !.frame_labels = labels]
    ELSE
      LET e == fc.cache[fc.evt]
          g == IF Prioritize(set) = "speed"
               THEN SpeedGate(e, t)
               ELSE AccuracyGate(e, t, window_size, MinFrames(set))
          img == IF CroppingActive(set)
                 THEN GetImageData(st.crops, rgb, set, <<d>>, encoded)
                 ELSE [crops |-> st.crops, ret |-> st.ret]
      IN [cache |-> [fc.cache EXCEPT ![fc.evt] = g],
          fired |-> IF e.state = 0 /\ g.state = 1
                    THEN Append(st.fired, Rising(d.label, t))
                    ELSE st.fired,
          frame_labels |-> labels,
          crops |-> img.crops,
          ret |-> img.ret,
          served |-> IF CroppingActive(set)
                     THEN Serve(st.served, <<d>>, img.ret)
                     ELSE st.served,
          live |-> IF CroppingActive(set)
                   THEN st.live + NewJpeg(st.crops, <<d>>, img.ret)
                   ELSE st.live]

RECURSIVE GateLoop(_, _, _, _, _, _, _, _)
GateLoop(st, dets, i, t, set, window_size, rgb, okset) ==
    IF i > Len(dets) THEN st
    ELSE CHOOSE r \in
            {GateLoop(nx, dets, i + 1, t, set, window_size, rgb, okset) :
                nx \in {GateDetection(st, dets[i], t, set, window_size, rgb, i \in okset)}} :
            TRUE

\* Mutant of the roll-in of zeros: a label whose window falls under the default
\* threshold is lowered on the spot.
RollUnseenFalls(cache, frame_labels, window_size) ==
    [i \in 1..Len(cache) |->
        IF \E j \in 1..Len(frame_labels) : cache[i].name = frame_labels[j]
        THEN cache[i]
        ELSE LET p == RollPush(cache[i], 0, window_size) IN
             [p EXCEPT !.state = IF RollingSum(p) < DefaultMinFrames THEN 0 ELSE @]]

\* "For all labels that did NOT occur this frame, roll in 0".
RollUnseen(cache, frame_labels, window_size) ==
    [i \in 1..Len(cache) |->
        IF \E j \in 1..Len(frame_labels) : cache[i].name = frame_labels[j]
        THEN cache[i]
        ELSE RollPush(cache[i], 0, window_size)]

\* The whole of Output() past its two early returns.
OutputBody(cache, crops, ret, hist, dets, t, set, averageInferenceTime, rgb, okset) ==
    LET window_size == WindowSize(averageInferenceTime) IN
    CHOOSE r \in
        {IF Prioritize(set) = "accuracy"
         THEN [st EXCEPT !.cache = RollUnseen(st.cache, st.frame_labels, window_size)]
         ELSE st :
            st \in {GateLoop([cache |-> cache, fired |-> <<>>, frame_labels |-> <<>>,
                              crops |-> crops, ret |-> ret, served |-> hist[1],
                              live |-> hist[2]],
                             dets, 1, t, set, window_size, rgb, okset)}} :
        TRUE

LabelsOf(dets) == {dets[i].label : i \in 1..Len(dets)}

\* History of the cycle: which observed labels were gated, and for how many
\* window-4 accuracy cycles in a row.
StreakAfter(dets, set, window_size) ==
    [l \in FrameLabels |->
        IF /\ set.present /\ Prioritize(set) = "accuracy"
           /\ window_size = 4 /\ MinFrames(set) = 3
           /\ l \in LabelsOf(dets)
        THEN Min(streak[l] + 1, 3)
        ELSE 0]

\* History of the cycle in accuracy mode, kept by the specification of the
\* accuracy gate: for every observed label, whether it was in the frame of
\* each of the last window_size calls of Output, the calls with an empty
\* detection list included, oldest first.
LastN(s, n) == IF Len(s) <= n THEN s ELSE SubSeq(s, Len(s) - n + 1, Len(s))
AppearedAfter(dets, set, window_size) ==
    [l \in FrameLabels |->
        IF set.present /\ Prioritize(set) = "accuracy"
        THEN LastN(Append(appeared[l], l \in LabelsOf(dets)), window_size)
        ELSE <<>>]
Appearances(hist) == Cardinality({k \in 1..Len(hist) : hist[k]})

\* History of the events: the labels with an open event after the events
\* evts went out in order, when those in open had one before.
RECURSIVE OpenAfter(_, _)
OpenAfter(open, evts) ==
    IF evts = <<>> THEN open
    ELSE OpenAfter(IF Head(evts).state THEN open \cup {Head(evts).label}
                   ELSE open \ {Head(evts).label},
                   Tail(evts))

Tracked(cache, l) == \E i \in 1..Len(cache) : cache[i].name = l
High(cache, l) == \E i \in 1..Len(cache) : cache[i].name = l /\ cache[i].state = 1

Output(dets, averageInferenceTime, okset) ==
    /\ cycles < MaxCycles
    /\ cycles' = cycles + 1
    /\ streak' = StreakAfter(dets, settings, WindowSize(averageInferenceTime))
    /\ UNCHANGED <<now, settings, output_tensor, outputPc, restarted, original_rgb_buffer,
                   inferenceErrors,
                   currentRefId,
                   modelState, detections, decoded>>
    /\ IF dets = <<>> \/ ~settings.present
       THEN /\ fired' = <<>>
            /\ UNCHANGED <<eventsCache, cropCache, result, riseTime, seenAt, served,
                           jpegLive>>
       ELSE \E st \in {OutputBody(eventsCache, cropCache, result, <<served, jpegLive>>,
                                    dets, now,
                                    settings, averageInferenceTime, original_rgb_buffer,
                                    okset)} :
               /\ served' = st.served
               /\ jpegLive' = st.live
               /\ eventsCache' = st.cache
               /\ fired' = st.fired
               /\ cropCache' = st.crops
               /\ result' = st.ret
               /\ riseTime' = [l \in FrameLabels |->
                                IF \E k \in 1..Len(st.fired) : st.fired[k].label = l
                                THEN now ELSE riseTime[l]]
               /\ seenAt' = [l \in FrameLabels |->
                                IF ~Tracked(st.cache, l) THEN 0
                                ELSE IF l \in LabelsOf(dets) THEN now ELSE seenAt[l]]
    /\ openEvents' = OpenAfter(openEvents, fired')

(* ---------------- the timeout sweep ---------------- *)
Lowered(e, t, set) == e.state = 1 /\ Expired(t, e.last_detect_time, MinEventDuration(set))

\* "eventsCache[i].state = 0;" with the entry's ring emptied as well.
LowerAndForget(e) == [e EXCEPT !.state = 0, !.rolling_count = 0]
\* "eventsCache[i].state = 0;"
Lower(e) == [e EXCEPT !.state = 0]

RECURSIVE FallingEvents(_, _, _, _)
FallingEvents(cache, i, t, set) ==
    IF i > Len(cache) THEN <<>>
    ELSE (IF Lowered(cache[i], t, set) THEN <<Falling(cache[i].name, t)>> ELSE <<>>)
         \o FallingEvents(cache, i + 1, t, set)

Output_DeactivateExpired ==
    /\ UNCHANGED <<now, settings, output_tensor, outputPc, appeared, restarted, seenAt,
                   streak, cropCache,
                   original_rgb_buffer, result,
                   cycles, inferenceErrors, currentRefId, modelState, served, detections,
                   decoded, jpegLive>>
    /\ IF ~settings.present
       THEN /\ fired' = <<>>
            /\ UNCHANGED <<eventsCache, riseTime>>
       ELSE /\ eventsCache' = [i \in 1..Len(eventsCache) |->
                                 IF Lowered(eventsCache[i], now, settings)
                                 THEN Lower(eventsCache[i])
                                 ELSE eventsCache[i]]
            /\ fired' = FallingEvents(eventsCache, 1, now, settings)
            /\ riseTime' = [l \in FrameLabels |->
                             IF \E i \in 1..Len(eventsCache) :
                                   /\ eventsCache[i].name = l
                                   /\ Lowered(eventsCache[i], now, settings)
                             THEN 0 ELSE riseTime[l]]
    /\ openEvents' = OpenAfter(openEvents, fired')

Output_reset ==
    /\ eventsCache' = <<>>
    /\ fired' = <<>>
    /\ streak' = [l \in FrameLabels |-> 0]
    /\ riseTime' = [l \in FrameLabels |-> 0]
    /\ seenAt' = [l \in FrameLabels |-> 0]
    /\ openEvents' = {}
    /\ UNCHANGED <<now, settings, output_tensor, outputPc, appeared, restarted,
                   cropCache, original_rgb_buffer, result, cycles,
                   inferenceErrors, currentRefId, modelState, served, detections,
                   decoded, jpegLive>>

\* The clock moves between handlers.
Tick ==
    /\ \E step \in TickSteps : now + step <= MaxTime /\ now' = now + step
    /\ fired' = <<>>
    /\ UNCHANGED <<settings, output_tensor, outputPc, appeared, restarted, openEvents,
                   eventsCache, riseTime, seenAt, streak, cropCache,
                   original_rgb_buffer, result, cycles, inferenceErrors, currentRefId,
                   modelState, served, detections, decoded, jpegLive>>

(* ---------------- Model.c: inference and evidence ---------------- *)
gateVars == <<now, eventsCache, fired, riseTime, seenAt, streak, cycles>>

Model_Reset ==
    /\ cropCache' = clear_crop_cache
    /\ jpegLive' = jpegLive - FreedByClear(cropCache)
    /\ served' = [r \in RefIds |-> <<>>]
    /\ UNCHANGED <<gateVars, settings, output_tensor, outputPc, appeared, restarted, openEvents,
                   original_rgb_buffer, result, inferenceErrors,
                   currentRefId, modelState, detections, decoded>>

\* The HD buffer stays mapped and original_rgb_buffer keeps pointing at it.
Model_Cleanup ==
    /\ cropCache' = clear_crop_cache
    /\ jpegLive' = jpegLive - FreedByClear(cropCache)
    /\ served' = [r \in RefIds |-> <<>>]
    /\ modelState' = FALSE
    /\ restarted' = FALSE
    /\ UNCHANGED <<gateVars, settings, output_tensor, outputPc, appeared, openEvents,
                   original_rgb_buffer, result, inferenceErrors,
                   currentRefId, detections, decoded>>

\* Model_Setup marks the model stopped, reads the configuration and builds the
\* pipeline; a missing configuration returns at once, every later failure runs
\* Model_Cleanup, success empties the crop cache and marks the model running.
\* It assigns neither inferenceErrors nor currentRefId.
SetupOutcomes == {"ok", "noconfig", "failed"}
Model_Setup(outcome) ==
    /\ modelState' = (outcome = "ok")
    /\ restarted' = (outcome = "ok" /\ inferenceErrors <= 0 /\ ~modelState)
    /\ cropCache' = IF outcome = "noconfig" THEN cropCache ELSE clear_crop_cache
    /\ jpegLive' = IF outcome = "noconfig" THEN jpegLive
                   ELSE jpegLive - FreedByClear(cropCache)
    /\ served' = IF outcome = "noconfig" THEN served ELSE [r \in RefIds |-> <<>>]
    /\ UNCHANGED <<gateVars, settings, output_tensor, outputPc, appeared, openEvents,
                   original_rgb_buffer, result, inferenceErrors,
                   currentRefId, detections, decoded>>

JobFailures == {"none", "hd", "pp", "seek", "inf"}

\* Variant: the budget counts as spent only below zero.
BudgetSpentBelowZero(n) == n < 0
\* The test Model_Inference makes of its error budget before it runs a job.
BudgetSpent(n) == n <= 0

\* iou() on whole numbers: the corners are kept doubled, so inter and union
\* are four times those of the C function and their quotient is the same.
\* The arguments x, y are taken as the centre of the box.
iou(x1, y1, w1, h1, x2, y2, w2, h2) ==
    LET Max(a, b) == IF a > b THEN a ELSE b
        xx1 == Max(2 * x1 - w1, 2 * x2 - w2)
        yy1 == Max(2 * y1 - h1, 2 * y2 - h2)
        xx2 == Min(2 * x1 + w1, 2 * x2 + w2)
        yy2 == Min(2 * y1 + h1, 2 * y2 + h2)
        inter == Max(0, xx2 - xx1) * Max(0, yy2 - yy1)
    IN [inter |-> inter, union |-> 4 * w1 * h1 + 4 * w2 * h2 - inter]

\* nms = 0.05 as a fraction.
nmsNum == 1
nmsDen == 20
\* iou_value > nms; 0/0 is NaN and compares false.
IouOverNms(d, a) ==
    LET v == iou(d.box[1].x, d.box[1].y, d.box[1].w, d.box[1].h,
                 a.box[1].x, a.box[1].y, a.box[1].w, a.box[1].h)
    IN v.union > 0 /\ v.inter * nmsDen > v.union * nmsNum

\* Mutant of the inner loop: of two detections of equal confidence that
\* overlap, both are kept.
RECURSIVE NmsInnerTieKeepsBoth(_, _, _, _)
NmsInnerTieKeepsBoth(list, keep, i, j) ==
    IF j > Len(list) THEN keep
    ELSE IF keep[j] /\ IouOverNms(list[i], list[j]) /\ list[i].c # list[j].c
    THEN IF list[i].c > list[j].c
         THEN NmsInnerTieKeepsBoth(list, [keep EXCEPT ![j] = FALSE], i, j + 1)
         ELSE [keep EXCEPT ![i] = FALSE]
    ELSE NmsInnerTieKeepsBoth(list, keep, i, j + 1)

\* Mutant of the inner loop: of two detections of equal confidence that
\* overlap, the earlier one is kept.
RECURSIVE NmsInnerTieKeepsFirst(_, _, _, _)
NmsInnerTieKeepsFirst(list, keep, i, j) ==
    IF j > Len(list) THEN keep
    ELSE IF keep[j] /\ IouOverNms(list[i], list[j])
    THEN IF list[i].c >= list[j].c
         THEN NmsInnerTieKeepsFirst(list, [keep EXCEPT ![j] = FALSE], i, j + 1)
         ELSE [keep EXCEPT ![i] = FALSE]
    ELSE NmsInnerTieKeepsFirst(list, keep, i, j + 1)

\* The inner loop over j for one kept i; it ends early when i is dropped.
RECURSIVE NmsInner(_, _, _, _)
NmsInner(list, keep, i, j) ==
    IF j > Len(list) THEN keep
    ELSE IF keep[j] /\ IouOverNms(list[i], list[j])
    THEN IF list[i].c > list[j].c
         THEN NmsInner(list, [keep EXCEPT ![j] = FALSE], i, j + 1)
         ELSE [keep EXCEPT ![i] = FALSE]
    ELSE NmsInner(list, keep, i, j + 1)

RECURSIVE NmsOuter(_, _, _)
NmsOuter(list, keep, i) ==
    IF i > Len(list) THEN keep
    ELSE NmsOuter(list, IF keep[i] THEN NmsInner(list, keep, i, i + 1) ELSE keep, i + 1)

\* Variant: the kept items are copied last to first.
RECURSIVE KeptItemsReversed(_, _, _)
KeptItemsReversed(list, keep, i) ==
    IF i > Len(list) THEN <<>>
    ELSE KeptItemsReversed(list, keep, i + 1) \o (IF keep[i] THEN <<list[i]>> ELSE <<>>)

\* The copy of the kept items, in list order.
RECURSIVE KeptItems(_, _, _)
KeptItems(list, keep, i) ==
    IF i > Len(list) THEN <<>>
    ELSE (IF keep[i] THEN <<list[i]>> ELSE <<>>) \o KeptItems(list, keep, i + 1)

non_maximum_suppression(list) ==
    IF Len(list) < 2 THEN list
    ELSE KeptItems(list, NmsOuter(list, [i \in 1..Len(list) |-> TRUE], 1), 1)

(* ---------------- the decode loop ---------------- *)
\* The model configuration of the decode specification: two classes, a
\* quantisation step of 1/4 and zero point 2; the thresholds are the ones the
\* code starts with (0.25 and 0.30).
classes == 2
quantDen == 4
quant_zero == 2
objectnessNum == 1
objectnessDen == 4
confidenceNum == 3
confidenceDen == 10

\* A row of the output tensor: five bytes and one byte for each class.
TensorRow(cx, cy, w, h, obj, cls) ==
    [cx |-> cx, cy |-> cy, w |-> w, h |-> h, obj |-> obj, cls |-> cls]
\* Dequantised values are kept as multiples of the step: objectness in
\* 1/quantDen, a class confidence (class value x objectness) in 1/quantDen^2.
Objectness(r) == r.obj - quant_zero
ObjectnessPasses(r) == Objectness(r) * objectnessDen >= objectnessNum * quantDen
Confidence(r, c) == (r.cls[c] - quant_zero) * Objectness(r)
\* Variant: a later class of the same confidence replaces the earlier one.
RECURSIVE ClassLoopLast(_, _, _, _)
ClassLoopLast(r, c, classId, maxConfidence) ==
    IF c > classes THEN [classId |-> classId, maxConfidence |-> maxConfidence]
    ELSE IF Confidence(r, c) >= maxConfidence /\ Confidence(r, c) > 0
    THEN ClassLoopLast(r, c + 1, c, Confidence(r, c))
    ELSE ClassLoopLast(r, c + 1, classId, maxConfidence)
\* The loop over the classes, from classId -1 (here 0) and maxConfidence 0.
RECURSIVE ClassLoop(_, _, _, _)
ClassLoop(r, c, classId, maxConfidence) ==
    IF c > classes THEN [classId |-> classId, maxConfidence |-> maxConfidence]
    ELSE IF Confidence(r, c) > maxConfidence
    THEN ClassLoop(r, c + 1, c, Confidence(r, c))
    ELSE ClassLoop(r, c + 1, classId, maxConfidence)
ConfidencePasses(maxConfidence) ==
    maxConfidence * confidenceDen > confidenceNum * quantDen * quantDen
\* labels[classId] of the model configuration.
LabelOfClass(classId) == <<classId>>
\* The rows that pass both thresholds, in tensor order, as the decode loop
\* holds them before it builds a detection; coordinates are kept in halves of
\* the step, so that w / 2 is exact.
RECURSIVE PassingRows(_)
PassingRows(tensor) ==
    IF tensor = <<>> THEN <<>>
    ELSE LET r == Head(tensor)
             best == ClassLoop(r, 1, 0, 0)
         IN (IF ObjectnessPasses(r) /\ ConfidencePasses(best.maxConfidence)
             THEN <<[label |-> LabelOfClass(best.classId), c |-> best.maxConfidence,
                     x |-> 2 * (r.cx - quant_zero), y |-> 2 * (r.cy - quant_zero),
                     w |-> 2 * (r.w - quant_zero), h |-> 2 * (r.h - quant_zero)]>>
             ELSE <<>>) \o PassingRows(Tail(tensor))

\* The detection Model_Inference makes of a row of the output tensor that
\* passes both thresholds: the row gives the centre, the detection the
\* top-left corner (w and h are even in the rows of the model).
Detection(row, refId) ==
    [label |-> row.label, c |-> row.c, refId |-> <<refId>>,
     box |-> <<[x |-> row.x - (row.w \div 2), y |-> row.y - (row.h \div 2),
                w |-> row.w, h |-> row.h]>>]
\* Variant: every cycle numbers its detections from 1 again.
DecodedRestart(rows, firstRefId) ==
    [i \in 1..Len(rows) |-> Detection(rows[i], i)]
Decoded(rows, firstRefId) ==
    [i \in 1..Len(rows) |-> Detection(rows[i], firstRefId + i - 1)]

\* image: a frame was handed in; content: what the frame shows; failure: the
\* larod job or the lseek that fails in this call; rows: the rows of the
\* output tensor that pass both thresholds, in tensor order.
Model_Inference(image, content, failure, rows) ==
    IF ~image \/ ~modelState
    THEN /\ detections' = <<>> /\ decoded' = <<>>
         /\ UNCHANGED <<gateVars, settings, output_tensor, outputPc, appeared, restarted,
                        openEvents,
                        cropCache, original_rgb_buffer, result,
                        inferenceErrors, currentRefId, modelState, served, jpegLive>>
    ELSE IF BudgetSpent(inferenceErrors)
    THEN /\ cropCache' = clear_crop_cache
         /\ jpegLive' = jpegLive - FreedByClear(cropCache)
         /\ served' = [r \in RefIds |-> <<>>]
         /\ modelState' = FALSE
         /\ restarted' = FALSE
         /\ detections' = <<>> /\ decoded' = <<>>
         /\ UNCHANGED <<gateVars, settings, output_tensor, outputPc, appeared, openEvents,
                        original_rgb_buffer, result,
                        inferenceErrors,
                        currentRefId>>
    ELSE IF ~settings.present
    THEN /\ detections' = <<>> /\ decoded' = <<>>
         /\ UNCHANGED <<gateVars, settings, output_tensor, outputPc, appeared, restarted,
                        openEvents,
                        cropCache, original_rgb_buffer, result,
                        inferenceErrors, currentRefId, modelState, served, jpegLive>>
    ELSE IF CroppingActive(settings) /\ failure = "hd"
    THEN /\ inferenceErrors' = inferenceErrors - 1
         /\ detections' = <<>> /\ decoded' = <<>>
         /\ UNCHANGED <<gateVars, settings, output_tensor, outputPc, appeared, restarted,
                        openEvents,
                        cropCache, original_rgb_buffer, result,
                        currentRefId, modelState, served, jpegLive>>
    ELSE /\ original_rgb_buffer' = IF CroppingActive(settings) THEN content ELSE 0
         /\ IF failure \in {"pp", "seek", "inf"}
            THEN /\ inferenceErrors' = inferenceErrors - 1
                 /\ detections' = <<>> /\ decoded' = <<>>
                 /\ UNCHANGED currentRefId
            ELSE /\ currentRefId' = currentRefId + Len(rows)
                 /\ decoded' = Decoded(rows, currentRefId)
                 /\ detections' = <<non_maximum_suppression(decoded')>>
                 /\ UNCHANGED inferenceErrors
         /\ UNCHANGED <<gateVars, settings, output_tensor, outputPc, appeared, restarted,
                        openEvents,
                        cropCache, result, modelState, served,
                        jpegLive>>

\* A caller asks for the evidence of one detection; encoded tells whether
\* crop_interleaved and the JPEG encoder deliver.
Model_GetImageData(det, encoded) ==
    /\ \E r \in {GetImageData(cropCache, original_rgb_buffer, settings, det, encoded)} :
          /\ cropCache' = r.crops
          /\ result' = r.ret
          /\ served' = Serve(served, det, r.ret)
          /\ jpegLive' = jpegLive + NewJpeg(cropCache, det, r.ret)
    /\ UNCHANGED <<gateVars, settings, output_tensor, outputPc, appeared, restarted, openEvents,
                   original_rgb_buffer, inferenceErrors,
                   currentRefId, modelState, detections, decoded>>

(* ---------------- inputs ---------------- *)
BoxOf(r) == [x |-> 100 * r, y |-> 50 * r, w |-> 200, h |-> 300]
Det(label, r) == [label |-> label, refId |-> <<r>>, box |-> <<BoxOf(r)>>]

\* The detection lists handed to Output: none, one or two detections of the
\* observed labels, numbered by position.
GateFrames ==
    {<<>>} \cup {<<Det(a, 1)>> : a \in FrameLabels}
           \cup {<<Det(a, 1), Det(b, 2)>> : a \in FrameLabels, b \in FrameLabels}
\* A frame that shows MAX_LABELS - 1 further classes at once.
CrowdFrame == [i \in 1..(MAX_LABELS - 1) |-> Det(<<0, i>>, i)]

DetNoRefId == [label |-> <<1>>, refId |-> <<>>, box |-> <<BoxOf(1)>>]
DetNoBox(r) == [label |-> <<1>>, refId |-> <<r>>, box |-> <<>>]

\* refIds are compared for equality only: the refIds handed out so far are
\* asked for in any order once they have been answered, and for the first
\* time in the order they were handed out.
Answered == {r \in RefIds : served[r] # <<>> \/ CacheIndex(cropCache, r) # 0}
Askable ==
    {r \in RefIds : r < currentRefId /\ \A q \in 1..(r - 1) : q \in Answered}
Requests ==
    {<<>>, <<DetNoRefId>>} \cup {<<Det(<<1>>, r)>> : r \in Askable}
                          \cup {<<DetNoBox(r)>> : r \in Askable}

NoCropping == <<>>
Borders(l, r, t, b) ==
    [active |-> TRUE, leftborder |-> l, rightborder |-> r, topborder |-> t,
     bottomborder |-> b]
CropSettings ==
    [present : {TRUE}, prioritize : {<<"speed">>}, minEventDuration : {<<>>},
     frames : {<<>>},
     cropping : {<<Borders(<<>>, <<>>, <<>>, <<>>)>>,
                 <<Borders(<<40>>, <<40>>, <<20>>, <<20>>)>>,
                 <<[Borders(<<>>, <<>>, <<>>, <<>>) EXCEPT !.active = FALSE]>>}]
GateSettings ==
    {[present |-> FALSE, prioritize |-> <<>>, minEventDuration |-> <<>>,
      frames |-> <<>>, cropping |-> NoCropping]}
    \cup
    [present : {TRUE}, prioritize : {<<"speed">>, <<"accuracy">>},
     minEventDuration : MinDurationItems, frames : FramesItems,
     cropping : {NoCropping}]

InitState ==
    /\ now = 0
    /\ eventsCache = <<>>
    /\ fired = <<>>
    /\ riseTime = [l \in FrameLabels |-> 0]
    /\ seenAt = [l \in FrameLabels |-> 0]
    /\ streak = [l \in FrameLabels |-> 0]
    /\ appeared = [l \in FrameLabels |-> <<>>]
    /\ restarted = FALSE
    /\ openEvents = {}
    /\ outputPc = Idle
    /\ cropCache = <<>>
    /\ original_rgb_buffer = 0
    /\ result = Absent
    /\ cycles = 0
    /\ inferenceErrors = 5
    /\ currentRefId = 1
    /\ modelState = TRUE
    /\ detections = <<>>
    /\ decoded = <<>>
    /\ jpegLive = 0
    /\ served = [r \in RefIds |-> <<>>]
InitCommon == InitState /\ output_tensor = <<>>

Init == InitCommon /\ settings \in GateSettings

\* The crowded frame is taken as the first frame only.
OutputCycle ==
    \E dets \in GateFrames \cup (IF now = 0 /\ eventsCache = <<>> THEN {CrowdFrame} ELSE {}),
       avg \in AvgTimes :
        Output(dets, avg, {}) /\ UNCHANGED appeared

Next == Tick \/ OutputCycle \/ Output_DeactivateExpired \/ Output_reset

Spec == Init /\ [][Next]_vars

(* ---------------- the evidence path ---------------- *)
Row(label, c, x, y, w, h) == [label |-> label, c |-> c, x |-> x, y |-> y, w |-> w, h |-> h]
\* Frames with no, one or two hands far apart.
CropRows ==
    {<<>>, <<Row(<<1>>, 80, 200, 200, 100, 100)>>,
     <<Row(<<1>>, 80, 200, 200, 100, 100), Row(<<2>>, 60, 700, 600, 100, 100)>>}
CropInit == InitCommon /\ settings \in CropSettings

\* The cycles of this specification succeed; a failing job leaves the cache,
\* the frame buffer's contents and the evidence alone.
InferenceCycle ==
    \E content \in FrameContents, rows \in CropRows :
        /\ currentRefId + Len(rows) <= MaxRefId + 1
        /\ Model_Inference(TRUE, content, "none", rows)

EvidenceRequest ==
    \E det \in Requests, encoded \in BOOLEAN :
        Model_GetImageData(det, encoded) /\ jpegLive' <= MaxJpegLive

CropNext == InferenceCycle \/ EvidenceRequest \/ Model_Reset \/ Model_Cleanup

CropSpec == CropInit /\ [][CropNext]_vars

(* ---------------- inference cycles ---------------- *)
\* Decoded rows (centre, extents): two hands of the same size that overlap, a
\* hand far away, and a small box lying inside the first hand's box.
HandA == Row(<<1>>, 80, 200, 200, 100, 100)
HandB == Row(<<2>>, 60, 210, 200, 100, 100)
HandFar == Row(<<2>>, 60, 700, 600, 100, 100)
HandSmall == Row(<<2>>, 60, 225, 225, 40, 40)
HandSmallHi == Row(<<2>>, 90, 225, 225, 40, 40)
InferHands == {HandA, HandB, HandFar, HandSmall, HandSmallHi}
InferRows ==
    {<<>>} \cup {<<a>> : a \in InferHands}
           \cup {<<a, b>> : a \in InferHands, b \in InferHands}
           \cup {<<HandA, HandB, HandFar>>, <<HandB, HandFar, HandA>>,
                 <<HandFar, HandB, HandA>>}
InferSettings ==
    {[present |-> FALSE, prioritize |-> <<>>, minEventDuration |-> <<>>,
      frames |-> <<>>, cropping |-> NoCropping],
     [present |-> TRUE, prioritize |-> <<>>, minEventDuration |-> <<>>,
      frames |-> <<>>, cropping |-> NoCropping],
     [present |-> TRUE, prioritize |-> <<>>, minEventDuration |-> <<>>,
      frames |-> <<>>, cropping |-> <<Borders(<<>>, <<>>, <<>>, <<>>)>>]}
InferInit == InitCommon /\ settings \in InferSettings

InferCycle ==
    \E image \in BOOLEAN, failure \in JobFailures, rows \in InferRows :
        /\ currentRefId + Len(rows) <= MaxRefId + 1
        /\ Model_Inference(image, 1, failure, rows)

SetupCall == \E outcome \in SetupOutcomes : Model_Setup(outcome)

InferNext == InferCycle \/ SetupCall \/ Model_Reset \/ Model_Cleanup

InferSpec == InferInit /\ [][InferNext]_vars

(* ======================= claims ======================= *)
AllFrames == GateFrames \cup {CrowdFrame}
SpeedMode == settings.present /\ Prioritize(settings) = "speed"
AccuracyMode == settings.present /\ Prioritize(settings) = "accuracy"

HighAt(cache, l, t) ==
    \E i \in 1..Len(cache) :
        cache[i].name = l /\ cache[i].state = 1 /\ cache[i].last_detect_time = t
RisingCount(evts, l) ==
    Cardinality({k \in 1..Len(evts) : evts[k].label = l /\ evts[k].state})
FallingCount(evts, l) ==
    Cardinality({k \in 1..Len(evts) : evts[k].label = l /\ ~evts[k].state})
FirstIndex(dets, l) ==
    CHOOSE i \in 1..Len(dets) :
        dets[i].label = l /\ \A j \in 1..(i - 1) : dets[j].label # l
\* The labels the table must take in before it reaches l in the frame.
NewBefore(cache, dets, l) ==
    {dets[j].label : j \in 1..(FirstIndex(dets, l) - 1)}
        \ {cache[i].name : i \in 1..Len(cache)}
HasSlot(cache, dets, l) ==
    Tracked(cache, l) \/ Len(cache) + Cardinality(NewBefore(cache, dets, l)) < MAX_LABELS

C2_SweepIff ==
    [][Output_DeactivateExpired =>
          /\ Len(eventsCache') = Len(eventsCache)
          /\ \A k \in 1..Len(fired') : ~fired'[k].state
          /\ \A i \in 1..Len(eventsCache) :
                LET e == eventsCache[i]
                    late == (now - e.last_detect_time) > MinEventDuration(settings)
                IN /\ eventsCache'[i].name = e.name
                   /\ e.state = 1 =>
                         /\ (eventsCache'[i].state = 0) <=> late
                         /\ FallingCount(fired', e.name) = (IF late THEN 1 ELSE 0)
                   /\ e.state = 0 =>
                         eventsCache'[i].state = 0 /\ FallingCount(fired', e.name) = 0]_vars

\* A sweep lowered one label and kept another that is exactly minEventDuration old.
C2_Witness ==
    /\ \E k \in 1..Len(fired) : ~fired[k].state
    /\ \E i \in 1..Len(eventsCache) :
          /\ eventsCache[i].state = 1
          /\ now - eventsCache[i].last_detect_time = MinEventDuration(settings)

\* C3: a falling event comes more than minEventDuration after the rising event
\* it closes and not less than minEventDuration after the label's last detection.
C3_MinDuration ==
    [][\A k \in 1..Len(fired') :
          (~fired'[k].state /\ fired'[k].label \in FrameLabels) =>
             /\ fired'[k].time - riseTime[fired'[k].label] > MinEventDuration(settings)
             /\ fired'[k].time - seenAt[fired'[k].label] >= MinEventDuration(settings)]_vars

\* In accuracy mode a label fell that had been detected again after it rose.
C3_Witness ==
    /\ AccuracyMode
    /\ \E k \in 1..Len(fired) : ~fired[k].state /\ fired[k].label = <<1>>
    /\ seenAt[<<1>>] > 0

\* C4 as stated: with window_size 4 and min_frames_in_window 3 a tracked label
\* is HIGH at the end of the third consecutive cycle that detects it.
C4_Original ==
    [][\A l \in FrameLabels :
          (streak[l] = 2 /\ streak'[l] = 3 /\ Tracked(eventsCache', l)) =>
             High(eventsCache', l)]_vars

\* C5: only the sweep turns a HIGH label LOW; an Output call keeps every HIGH
\* label HIGH and publishes no falling event.
C5_OnlySweepLowers ==
    [][/\ (\E i \in 1..Len(eventsCache) :
              /\ eventsCache[i].state = 1
              /\ Tracked(eventsCache', eventsCache[i].name)
              /\ ~High(eventsCache', eventsCache[i].name))
          => Output_DeactivateExpired
       /\ cycles' # cycles =>
                /\ \A k \in 1..Len(fired') : fired'[k].state
                /\ \A i \in 1..Len(eventsCache) :
                      eventsCache[i].state = 1 =>
                         /\ eventsCache'[i].name = eventsCache[i].name
                         /\ eventsCache'[i].state = 1]_vars

\* In accuracy mode a HIGH label went through a cycle that did not detect it.
C5_Witness ==
    /\ AccuracyMode
    /\ \E i \in 1..Len(eventsCache) :
          /\ eventsCache[i].state = 1
          /\ eventsCache[i].rolling[eventsCache[i].rolling_head] = 0

(* ---------------- the crop geometry over its input range ---------------- *)
GeomCoords == {0, 500, 1000}
GeomBoxes == [x : GeomCoords, y : GeomCoords, w : GeomCoords, h : {0, 1000}]
GeomSettings ==
    [present : {TRUE}, prioritize : {<<"speed">>}, minEventDuration : {<<>>},
     frames : {<<>>},
     cropping : {<<Borders(<<>>, <<>>, <<>>, <<>>)>>,
                 <<Borders(<<40>>, <<40>>, <<20>>, <<20>>)>>,
                 <<Borders(<<2000>>, <<>>, <<2000>>, <<>>)>>}]

GeomInit == InitCommon /\ settings \in GeomSettings
GeomFrame == Model_Inference(TRUE, 1, "none", <<>>)
GeomRequest ==
    \E box \in GeomBoxes :
        Model_GetImageData(<<[label |-> <<1>>, refId |-> <<1>>, box |-> <<box>>]>>, TRUE)
GeomNext == GeomFrame \/ GeomRequest \/ Model_Reset
GeomSpec == GeomInit /\ [][GeomNext]_vars

(* ---------------- the gate under a fair sweep and clock ---------------- *)
LiveSettings ==
    [present : {TRUE}, prioritize : {<<"speed">>, <<"accuracy">>},
     minEventDuration : {<<1500>>}, frames : FramesItems, cropping : {NoCropping}]
LiveInit == InitCommon /\ settings \in LiveSettings
\* The clock stops at MaxTime: a cycle runs only while the clock can still pass
\* the label's minEventDuration afterwards.
LiveOutputCycle ==
    \E dets \in GateFrames, avg \in AvgTimes, step \in TickSteps :
        /\ now + MinEventDuration(settings) + step <= MaxTime
        /\ Output(dets, avg, {})
        /\ UNCHANGED appeared
LiveNext == Tick \/ LiveOutputCycle \/ Output_DeactivateExpired \/ Output_reset
\* g_timeout_add(200, Output_DeactivateExpired) keeps the sweep running.
LiveSpec ==
    /\ LiveInit /\ [][LiveNext]_vars
    /\ WF_vars(Tick) /\ WF_vars(Output_DeactivateExpired)

C10_Original ==
    result.buf # <<>> =>
        LET crop_x == result.buf[1][2]
            crop_y == result.buf[1][3]
            crop_w == result.buf[1][4]
            crop_h == result.buf[1][5]
        IN /\ crop_x >= 0 /\ crop_y >= 0 /\ crop_w >= 1 /\ crop_h >= 1
           /\ crop_x + crop_w <= videoWidth
           /\ crop_y + crop_h <= videoHeight

(* ---------------- claims on the crop cache ---------------- *)
Evidence(e) ==
    [buf |-> <<e.jpeg_buf>>, size |-> e.jpeg_size, x |-> e.crop_x, y |-> e.crop_y,
     w |-> e.crop_w, h |-> e.crop_h, img_w |-> e.img_w, img_h |-> e.img_h]
IsReset == Model_Reset \/ Model_Cleanup

\* C7 as stated: between two cache resets every request for a refId that is
\* answered with evidence is answered with the same bytes, box and dimensions.
C7_Original ==
    [][\A r \in RefIds :
          (served[r] # <<>> /\ served'[r] # <<>>) => served'[r] = served[r]]_vars

\* C8 as stated: a request for a refId that is not cached, made while
\* MODEL_MAX_CACHED_CROPS other refIds are, is answered with NULL and size 0.
C8_Original ==
    [][\A r \in RefIds, encoded \in BOOLEAN :
          (/\ Len(cropCache) = MODEL_MAX_CACHED_CROPS
           /\ CacheIndex(cropCache, r) = 0
           /\ Model_GetImageData(<<Det(<<1>>, r)>>, encoded))
          => result' = Absent]_vars

\* Every stored entry is what a request for its refId returns.
Retrievable ==
    CroppingActive(settings) =>
       \A i \in 1..Len(cropCache) :
          \A encoded \in BOOLEAN :
             GetImageData(cropCache, original_rgb_buffer, settings,
                          <<Det(<<1>>, cropCache[i].refId)>>, encoded)
                = [crops |-> cropCache, ret |-> Evidence(cropCache[i])]
\* The step keeps the stored entries and adds none to a full cache.
KeptStep ==
    /\ Len(cropCache') >= Len(cropCache)
    /\ \A i \in 1..Len(cropCache) : cropCache'[i] = cropCache[i]
    /\ Len(cropCache) = MODEL_MAX_CACHED_CROPS => cropCache' = cropCache

\* C9: a step that is not Model_Reset or Model_Cleanup leaves every stored entry
\* in place and unchanged and stores nothing in a cache of
\* MODEL_MAX_CACHED_CROPS entries; a stored entry stays retrievable as stored.
C9_EntriesKept == []Retrievable /\ [][KeptStep \/ IsReset]_vars

\* A crop was produced and returned while the cache was full, and is not in it.
C9_Witness ==
    /\ Len(cropCache) = MODEL_MAX_CACHED_CROPS
    /\ result.buf # <<>>
    /\ \A i \in 1..Len(cropCache) : cropCache[i].jpeg_buf # result.buf[1]

(* ---------------- inference claims ---------------- *)
RefIdOf(d) == d.refId[1]
Returned == IF detections = <<>> THEN <<>> ELSE detections[1]

\* The refIds of the list in hand rise in list order and were all handed out
\* before the counter's present value.
RefIdsOrdered ==
    /\ \A i \in 1..Len(Returned) : RefIdOf(Returned[i]) < currentRefId
    /\ \A i, j \in 1..Len(Returned) :
          i < j => RefIdOf(Returned[i]) < RefIdOf(Returned[j])

\* No step lowers the counter, and a newly returned list carries only refIds
\* from the counter's value before the call onwards.
RefIdStep ==
    /\ currentRefId' >= currentRefId
    /\ (detections' # detections /\ detections' # <<>>) =>
          \A i \in 1..Len(detections'[1]) :
              RefIdOf(detections'[1][i]) >= currentRefId

\* C11: refIds are strictly increasing and never reused: within one list they
\* increase in list order, every refId of a later cycle is greater than every
\* refId handed out before, and no failed cycle, Model_Reset, Model_Cleanup or
\* Model_Setup lowers or restarts the counter.
C11_RefIdsIncrease == []RefIdsOrdered /\ [][RefIdStep]_vars

\* A later cycle's list of two detections, after a failed cycle and a stop.
C11_Witness ==
    /\ Len(Returned) = 2
    /\ RefIdOf(Returned[1]) >= 3
    /\ inferenceErrors < 5
    /\ ~modelState

\* The intersection over union of two stored boxes [x, x+w] x [y, y+h], as
\* the pair (intersection, union).
BoxOverlap(d, a) ==
    LET Max(p, q) == IF p > q THEN p ELSE q
        b1 == d.box[1]
        b2 == a.box[1]
        iw == Max(0, Min(b1.x + b1.w, b2.x + b2.w) - Max(b1.x, b2.x))
        ih == Max(0, Min(b1.y + b1.h, b2.y + b2.h) - Max(b1.y, b2.y))
    IN  [inter |-> iw * ih, union |-> b1.w * b1.h + b2.w * b2.h - iw * ih]
OverlapOverNms(d, a) ==
    LET v == BoxOverlap(d, a) IN v.inter * nmsDen > v.union * nmsNum

\* C12: of two detections of different confidence, in either order, only the
\* one of higher confidence is returned when their boxes overlap by more than
\* the NMS threshold, and both are returned otherwise.
C12_Original ==
    (Len(decoded) = 2 /\ decoded[1].c # decoded[2].c) =>
        Returned = IF OverlapOverNms(decoded[1], decoded[2])
                   THEN IF decoded[1].c > decoded[2].c
                        THEN <<decoded[1]>> ELSE <<decoded[2]>>
                   ELSE decoded

\* sub is what remains of full after taking items out, in the order of full.
RECURSIVE IsSubSeq(_, _)
IsSubSeq(sub, full) ==
    IF sub = <<>> THEN TRUE
    ELSE IF full = <<>> THEN FALSE
    ELSE IF Head(sub) = Head(full) THEN IsSubSeq(Tail(sub), Tail(full))
    ELSE IsSubSeq(sub, Tail(full))

\* C13: the list the suppressor returns is a sub-sequence of the list it was
\* given, in the same relative order, and a list of no or one detection is
\* returned as it is.
C13_SubSequence ==
    detections # <<>> =>
        /\ IsSubSeq(Returned, decoded)
        /\ Len(decoded) < 2 => Returned = decoded

\* Three detections went in, and the first and the last came out.
C13_Witness ==
    /\ Len(decoded) = 3
    /\ Returned = <<decoded[1], decoded[3]>>

\* A call with these inputs gets as far as the job named by failure.
JobRuns(failure) ==
    /\ modelState
    /\ inferenceErrors > 0
    /\ settings.present
    /\ failure = "hd" => CroppingActive(settings)

\* A step that is a call in which a job fails (such a call reads no rows).
FailedJobStep ==
    \E failure \in JobFailures \ {"none"} :
        JobRuns(failure) /\ Model_Inference(TRUE, 1, failure, <<>>)
\* A step that is a call with a frame on a running model whose budget is 0.
SpentStep ==
    /\ modelState /\ inferenceErrors = 0
    /\ \E failure \in JobFailures : Model_Inference(TRUE, 1, failure, <<>>)
\* A step that is a call on a stopped model.
StoppedStep ==
    /\ ~modelState
    /\ \E image \in BOOLEAN, failure \in JobFailures :
          Model_Inference(image, 1, failure, <<>>)

ErrorBudgetStep ==
    /\ FailedJobStep =>
          /\ detections' = <<>>
          /\ currentRefId' = currentRefId
          /\ inferenceErrors' = inferenceErrors - 1
          /\ modelState'
    /\ SpentStep =>
          /\ detections' = <<>>
          /\ ~modelState'
          /\ cropCache' = <<>>
          /\ UNCHANGED <<currentRefId, inferenceErrors, original_rgb_buffer>>
    /\ StoppedStep =>
          /\ detections' = <<>>
          /\ UNCHANGED <<currentRefId, inferenceErrors, original_rgb_buffer,
                         cropCache, served, modelState>>
    /\ inferenceErrors' # inferenceErrors => FailedJobStep

\* C14: a call in which a preprocessing or inference job fails returns no
\* detections, consumes no refId and lowers the error budget, which starts at
\* 5, by exactly one and in no other way; the next call with a frame after the
\* budget has reached 0 stops the model (cache cleared, model state false)
\* and returns nothing; every call on the stopped model returns nothing and
\* leaves budget, counter, frame buffer, cache and model state alone.
C14_ErrorBudget ==
    /\ [](inferenceErrors \in 0..5)
    /\ [][ErrorBudgetStep]_vars

\* The budget is spent and the model has been stopped after detections were
\* handed out.
C14_Witness == inferenceErrors = 0 /\ ~modelState /\ currentRefId > 1

(* ---------------- crop buffer claims ---------------- *)
\* What the last request handed back: no buffer with size 0, or a buffer with
\* a size above 0.
SizeMatchesBuffer ==
    IF result.buf = <<>> THEN result.size = 0 ELSE result.size > 0

\* A request that is answered with no buffer leaves the cache as it was.
\* (a step that ends with no buffer and another cache is no request)
AbsentKeepsCache ==
    (result'.buf = <<>> /\ cropCache' # cropCache) =>
        \A det \in Requests, encoded \in BOOLEAN : ~Model_GetImageData(det, encoded)

\* C15: whenever Model_GetImageData returns no buffer it reports size 0 and
\* leaves the crop cache exactly as it was, and whenever it returns a buffer
\* the reported size is greater than 0.
C15_AbsentOrSized == []SizeMatchesBuffer /\ [][AbsentKeepsCache]_vars

\* A request was answered with no buffer while crops were cached, and they
\* still are.
C15_Witness == result.buf = <<>> /\ Len(cropCache) >= 2

\* Model_Reset and Model_Cleanup leave an empty cache, in which every refId is
\* a miss, and have passed one buffer to free() for each entry there was.
ResetEffect ==
    /\ cropCache' = <<>>
    /\ \A r \in RefIds : CacheIndex(cropCache', r) = 0
    /\ jpegLive' = jpegLive - Len(cropCache)
\* Any other step frees no buffer and keeps the entries.
NoReleaseStep ==
    /\ jpegLive' >= jpegLive
    /\ Len(cropCache') >= Len(cropCache)
    /\ \A i \in 1..Len(cropCache) : cropCache'[i] = cropCache[i]
\* The buffers of the entries are among the unfreed ones.
CachedAreLive == jpegLive >= Len(cropCache)

C17_Original ==
    /\ [](jpegLive <= MODEL_MAX_CACHED_CROPS)
    /\ [][Model_Reset => jpegLive' = 0]_vars

(* ---------------- a window that changes between cycles ---------------- *)
\* Average inference times of 250 ms and 500 ms: windows of 4 and 2 cycles.
WinAvgTimes == {250, 500}
WinSettings ==
    [present : {TRUE}, prioritize : {<<"speed">>, <<"accuracy">>},
     minEventDuration : {<<>>}, frames : {<<>>}, cropping : {NoCropping}]
WinInit == InitCommon /\ settings \in WinSettings
\* Every frame shows one hand, so every cycle computes a window and pushes a
\* bit for every tracked label.
WinFrames == {<<Det(a, 1)>> : a \in FrameLabels}
WinOutputCycle ==
    \E dets \in WinFrames, avg \in WinAvgTimes : Output(dets, avg, {}) /\ UNCHANGED appeared
WinNext == Tick \/ WinOutputCycle \/ Output_DeactivateExpired \/ Output_reset
WinSpec == WinInit /\ [][WinNext]_vars

\* C18 as stated: after every cycle that computes a window every tracked
\* label has rolling_count <= the window_size used in that cycle <=
\* MAX_ROLLING, also when window_size differs from the cycle before.
C18_Original ==
    [][\A dets \in WinFrames, avg \in WinAvgTimes :
          Output(dets, avg, {}) =>
             /\ WindowSize(avg) <= MAX_ROLLING
             /\ \A i \in 1..Len(eventsCache') :
                   eventsCache'[i].rolling_count <= WindowSize(avg)]_vars

(* ---------------- labels longer than a name ---------------- *)
\* A label of NAME_CHARS + 1 characters, and the frames that show it or a
\* short label.
LongLabel == [i \in 1..(NAME_CHARS + 1) |-> 7]
LongFrames == {<<>>, <<Det(LongLabel, 1)>>, <<Det(<<1>>, 1)>>,
               <<Det(LongLabel, 1), Det(<<1>>, 2)>>}
LongSettings ==
    [present : {TRUE}, prioritize : {<<"speed">>, <<"accuracy">>},
     minEventDuration : {<<>>}, frames : {<<>>}, cropping : {NoCropping}]
LongInit == InitCommon /\ settings \in LongSettings
LongOutputCycle ==
    \E dets \in LongFrames, avg \in AvgTimes : Output(dets, avg, {}) /\ UNCHANGED appeared
LongNext == Tick \/ LongOutputCycle \/ Output_DeactivateExpired \/ Output_reset
LongSpec == LongInit /\ [][LongNext]_vars

\* C19 as stated: no two entries of the label table have the same name, the
\* table has at most MAX_LABELS entries, and a cycle that detects only labels
\* that are tracked already adds no entry, whatever the labels' length.
C19_Original ==
    /\ [](/\ Len(eventsCache) <= MAX_LABELS
          /\ \A i, j \in 1..Len(eventsCache) :
                i # j => eventsCache[i].name # eventsCache[j].name)
    /\ [][\A dets \in LongFrames, avg \in AvgTimes :
             (/\ Output(dets, avg, {})
              /\ \A k \in 1..Len(dets) : Tracked(eventsCache, Trunc(dets[k].label)))
             => Len(eventsCache') = Len(eventsCache)]_vars

\* What a cycle at time now leaves of a label it saw once and that started
\* LOW with an empty ring (rolling_head 0, rolling_count 0, every bit 0) and
\* last_detect_time 0: HIGH at once in speed mode; in accuracy mode LOW with
\* the one bit in slot 1.
SeenOnceFromFresh(name) ==
    IF Prioritize(settings) = "speed"
    THEN [name |-> name, state |-> 1,
          rolling |-> [i \in 0..(MAX_ROLLING - 1) |-> 0],
          rolling_head |-> 0, rolling_count |-> 0, last_detect_time |-> now]
    ELSE [name |-> name, state |-> 0,
          rolling |-> [i \in 0..(MAX_ROLLING - 1) |-> IF i = 1 THEN 1 ELSE 0],
          rolling_head |-> 1, rolling_count |-> 1, last_detect_time |-> now]
NewEntriesFresh ==
    \A i \in (Len(eventsCache) + 1)..Len(eventsCache') :
        eventsCache'[i] = SeenOnceFromFresh(eventsCache'[i].name)

\* C20: Output_reset leaves the label table empty, and every entry made for a
\* label afterwards starts LOW with an empty ring (rolling_count 0,
\* rolling_head 0, all bits 0) and last_detect_time 0.
C20_FreshAfterReset ==
    [][(Output_reset => eventsCache' = <<>>) /\ NewEntriesFresh]_vars

\* Every cycle pushes a bit for every tracked label, so the only entry having
\* one bit after two or more cycles was made after a reset; it carries
\* nothing over.
C20_Witness ==
    /\ Prioritize(settings) = "accuracy"
    /\ cycles >= 3
    /\ Len(eventsCache) = 1
    /\ eventsCache[1] = SeenOnceFromFresh(eventsCache[1].name)

(* ---------------- the decoder on spelled-out tensors ---------------- *)
\* Bytes for objectness -0.5, 0, 0.25 and 1, for class values 0, 0.25, 0.5
\* and 2, and two geometries (the second with an odd width).
ObjBytes == {0, 2, 3, 6}
ClsBytes == {2, 3, 4, 10}
TensorRows ==
    {TensorRow(g[1], g[2], g[3], g[4], o, <<a, b>>) :
        g \in {<<42, 42, 22, 22>>, <<50, 46, 23, 11>>},
        o \in ObjBytes, a \in ClsBytes, b \in ClsBytes}
Tensors == {<<r>> : r \in TensorRows} \cup {<<r, q>> : r \in TensorRows, q \in TensorRows}
DecodeSettings ==
    [present |-> TRUE, prioritize |-> <<>>, minEventDuration |-> <<>>,
     frames |-> <<>>, cropping |-> NoCropping]
DecodeInit == InitState /\ settings = DecodeSettings /\ output_tensor \in Tensors
DecodeCycle ==
    /\ currentRefId + Len(output_tensor) <= MaxRefId + 1
    /\ Model_Inference(TRUE, 1, "none", PassingRows(output_tensor))
DecodeNext == DecodeCycle \/ Model_Reset
DecodeSpec == DecodeInit /\ [][DecodeNext]_vars

\* What the claim says of a row, in the units of the bytes: objectness times
\* quantDen, class confidence times quantDen^2.
RowObjectness(r) == r.obj - quant_zero
RowConfidence(r, c) == (r.cls[c] - quant_zero) * (r.obj - quant_zero)
RowMaxConfidence(r) ==
    CHOOSE m \in {RowConfidence(r, c) : c \in 1..classes} :
        \A c \in 1..classes : RowConfidence(r, c) <= m
RowEmits(r) ==
    /\ 4 * RowObjectness(r) >= quantDen
    /\ 10 * RowMaxConfidence(r) > 3 * quantDen * quantDen
RowClass(r) ==
    CHOOSE c \in 1..classes :
        /\ RowConfidence(r, c) = RowMaxConfidence(r)
        /\ \A d \in 1..(c - 1) : RowConfidence(r, d) < RowMaxConfidence(r)
EmittingRows == {i \in 1..Len(output_tensor) : RowEmits(output_tensor[i])}
NthEmitting(k) ==
    CHOOSE i \in EmittingRows : Cardinality({j \in EmittingRows : j < i}) = k - 1

\* C21: the decode loop emits a detection for exactly the rows whose
\* objectness is >= 0.25 and whose greatest class confidence (class value x
\* objectness) is > 0.30, in row order, with the lowest class index that
\* attains the greatest confidence, x = cx - w/2, y = cy - h/2 and w and h as
\* in the row (the box is kept in halves of the quantisation step).
C21_Decoder ==
    detections # <<>> =>
        /\ Len(decoded) = Cardinality(EmittingRows)
        /\ \A k \in 1..Len(decoded) :
              LET r == output_tensor[NthEmitting(k)]
                  d == decoded[k]
              IN /\ d.label = LabelOfClass(RowClass(r))
                 /\ d.c = RowMaxConfidence(r)
                 /\ d.box[1].w = 2 * (r.w - quant_zero)
                 /\ d.box[1].h = 2 * (r.h - quant_zero)
                 /\ d.box[1].x = 2 * (r.cx - quant_zero) - (r.w - quant_zero)
                 /\ d.box[1].y = 2 * (r.cy - quant_zero) - (r.h - quant_zero)

\* Of two rows the first fails on its confidence with objectness 1, and the
\* second is emitted at objectness 0.25 exactly with two classes of the same
\* confidence.
C21_Witness ==
    /\ Len(output_tensor) = 2
    /\ Len(decoded) = 1
    /\ detections # <<>>
    /\ output_tensor[1].obj = 6
    /\ ~RowEmits(output_tensor[1])
    /\ output_tensor[2].obj = 3
    /\ output_tensor[2].cls = <<10, 10>>
    /\ output_tensor[2].w = 23

(* ---------------- eviction ---------------- *)
\* C22 as stated: a new crop produced while the cache holds
\* MODEL_MAX_CACHED_CROPS entries evicts the oldest entry and is stored, so
\* that the crop produced last is retrievable.
C22_Original ==
    [][\A r \in RefIds, encoded \in BOOLEAN :
          (/\ Len(cropCache) = MODEL_MAX_CACHED_CROPS
           /\ CacheIndex(cropCache, r) = 0
           /\ Model_GetImageData(<<Det(<<1>>, r)>>, encoded)
           /\ result'.buf # <<>>)
          => /\ Len(cropCache') = MODEL_MAX_CACHED_CROPS
             /\ \A i \in 1..(MODEL_MAX_CACHED_CROPS - 1) : cropCache'[i] = cropCache[i + 1]
             /\ CacheIndex(cropCache', r) = MODEL_MAX_CACHED_CROPS
             /\ Evidence(cropCache'[MODEL_MAX_CACHED_CROPS]) = result']_vars

(* ---------------- a full label table ---------------- *)
\* The detections of a frame whose label has an entry.
TrackedOnly(dets) == SelectSeq(dets, LAMBDA d : Tracked(eventsCache, d.label))
\* A cycle on a full table does to the table and to the event sink what the
\* same cycle does with the detections of untracked labels taken out of it.
FullTableStep ==
    /\ Len(eventsCache') = MAX_LABELS
    /\ \A i \in 1..MAX_LABELS : eventsCache'[i].name = eventsCache[i].name
    /\ \A k \in 1..Len(fired') : Tracked(eventsCache, fired'[k].label)
    /\ \A dets \in GateFrames \ {<<>>}, avg \in AvgTimes :
          Output(dets, avg, {}) =>
             \E st \in {OutputBody(eventsCache, cropCache, result, <<served, jpegLive>>,
                                   TrackedOnly(dets), now, settings, avg,
                                   original_rgb_buffer, {})} :
                eventsCache' = st.cache /\ fired' = st.fired

\* C23: with MAX_LABELS labels in the table a detection of a further label
\* makes no entry, publishes no event and changes no entry, and the other
\* detections of the frame are gated as they are without it.
C23_FullTable ==
    [][(Len(eventsCache) = MAX_LABELS /\ cycles' # cycles /\ settings.present)
          => FullTableStep]_vars

\* Label 2 was in the last two frames without an entry, with label 1, which
\* has one.
C23_Witness ==
    /\ Len(eventsCache) = MAX_LABELS
    /\ ~Tracked(eventsCache, <<2>>)
    /\ Tracked(eventsCache, <<1>>)
    /\ streak[<<2>>] >= 2
    /\ streak[<<1>>] >= 2

(* ---------------- the accuracy gate, cycle by cycle ---------------- *)
AccSettings ==
    [present : {TRUE}, prioritize : {<<"accuracy">>},
     minEventDuration : MinDurationItems, frames : FramesItems,
     cropping : {NoCropping}]
AccInit == InitCommon /\ settings \in AccSettings
\* A cycle of the accuracy gate, with the history of the frames it was given.
AccOutputCycle ==
    \E dets \in GateFrames, avg \in AvgTimes :
        /\ Output(dets, avg, {})
        /\ appeared' = AppearedAfter(dets, settings, WindowSize(avg))
AccNext == Tick \/ AccOutputCycle \/ Output_DeactivateExpired \/ Output_reset
AccSpec == AccInit /\ [][AccNext]_vars

\* C24 as stated: in accuracy mode a label goes from LOW to HIGH in a cycle
\* only if it was in the frame of at least min_frames_in_window of the most
\* recent window_size cycles, every cycle counted, the cycles with no
\* detection at all included, whether or not the label was HIGH before.
C24_Original ==
    [][(cycles' # cycles /\ settings.present /\ Prioritize(settings) = "accuracy") =>
          \A l \in FrameLabels :
              (~High(eventsCache, l) /\ High(eventsCache', l)) =>
                  Appearances(appeared'[l]) >= MinFrames(settings)]_vars

\* The label was not in the frame of the cycle that just ran.
NotInFrame(l) == Len(appeared'[l]) > 0 /\ ~appeared'[l][Len(appeared'[l])]
\* The ring of the entry went on by one slot and holds a 0 there.
ZeroPushed(old, new, window_size) ==
    /\ new.rolling_head = (old.rolling_head + 1) % window_size
    /\ new.rolling[new.rolling_head] = 0

\* C25 as stated: in accuracy mode every cycle, a cycle with an empty
\* detection list included, pushes a 0 into the ring of every tracked label
\* that is not in the frame.
C25_Original ==
    [][(cycles' # cycles /\ settings.present /\ Prioritize(settings) = "accuracy") =>
          \A l \in FrameLabels, avg \in AvgTimes :
              (Tracked(eventsCache, l) /\ NotInFrame(l)) =>
                  /\ Tracked(eventsCache', l)
                  /\ ZeroPushed(eventsCache[LabelIndex(eventsCache, l)],
                                eventsCache'[LabelIndex(eventsCache', l)],
                                WindowSize(avg))]_vars

\* The ring of the entry went on by exactly one slot: the head by one, the
\* count by at most one, and no slot but the one under the new head changed.
OneSlot(old, new, window_size) ==
    /\ new.rolling_head = (old.rolling_head + 1) % window_size
    /\ new.rolling_count = Min(old.rolling_count + 1, window_size)
    /\ \A k \in 0..(MAX_ROLLING - 1) :
          k # new.rolling_head => new.rolling[k] = old.rolling[k]

\* C26 as stated: in accuracy mode a cycle that reaches the gate moves the
\* ring of every tracked label on by exactly one slot, however many
\* detections of the label the frame holds.
C26_Original ==
    [][(/\ cycles' # cycles /\ settings.present /\ Prioritize(settings) = "accuracy"
        /\ \E l \in FrameLabels : ~NotInFrame(l)) =>
          \A l \in FrameLabels, avg \in AvgTimes :
              Tracked(eventsCache, l) =>
                  /\ Tracked(eventsCache', l)
                  /\ OneSlot(eventsCache[LabelIndex(eventsCache, l)],
                             eventsCache'[LabelIndex(eventsCache', l)],
                             WindowSize(avg))]_vars

(* ---------------- a label that keeps being detected ---------------- *)
NoEventFor(events, l) == \A k \in 1..Len(events) : events[k].label # l
\* The entry of the label is HIGH and was stamped at time t.
HighSince(cache, l, t) ==
    \E i \in 1..Len(cache) :
        cache[i].name = l /\ cache[i].state = 1 /\ cache[i].last_detect_time = t

\* A cycle whose frame shows a HIGH label leaves it HIGH, stamps it with the
\* time of the cycle and publishes nothing for it.
RefreshStep(l) ==
    \A dets \in GateFrames \ {<<>>}, avg \in AvgTimes :
        (l \in LabelsOf(dets) /\ Output(dets, avg, {})) =>
            HighSince(eventsCache', l, now) /\ NoEventFor(fired', l)
\* A sweep that runs at most minEventDuration after the last detection of a
\* HIGH label leaves its entry as it is and publishes nothing for it.
KeepStep(l) ==
    (Output_DeactivateExpired /\ now - seenAt[l] <= MinEventDuration(settings)) =>
        /\ eventsCache'[LabelIndex(eventsCache, l)] = eventsCache[LabelIndex(eventsCache, l)]
        /\ NoEventFor(fired', l)

\* C27: in both modes a HIGH label that is detected again stays HIGH, gets
\* its last_detect_time refreshed and fires no event, and no sweep that runs
\* within minEventDuration of its last detection lowers it.
C27_StaysHigh ==
    [][\A l \in FrameLabels :
          (settings.present /\ High(eventsCache, l)) =>
              /\ cycles' # cycles => RefreshStep(l)
              /\ cycles' = cycles => KeepStep(l)]_vars

\* A label rose, was detected again 1500 ms later, and is still HIGH after
\* another minEventDuration without a detection.
C27_Witness ==
    \E l \in FrameLabels :
        /\ settings.present /\ cycles >= 2 /\ fired = <<>>
        /\ riseTime[l] < seenAt[l]
        /\ now - seenAt[l] = MinEventDuration(settings)
        /\ HighSince(eventsCache, l, seenAt[l])

(* ---------------- the ring and its 16 slots ---------------- *)
\* n hands that show gesture 1 in one frame.
HandsFrame(n) == [i \in 1..n |-> Det(<<1>>, i)]
RingFrames == {HandsFrame(7), HandsFrame(8), <<Det(<<2>>, 1)>>}
\* Average inference times that give the windows 16 (clamped from 17), 15
\* and 2 (clamped from 1).
RingAvgTimes == {62, 70, 1000}
RingCycle ==
    \E dets \in RingFrames, avg \in RingAvgTimes :
        Output(dets, avg, {}) /\ UNCHANGED appeared
RingNext == RingCycle \/ Output_DeactivateExpired \/ Output_reset
RingSpec == AccInit /\ [][RingNext]_vars

\* What the conversion to int can leave in window_size when the quotient
\* does not fit an int.
INT_MAX == 2147483647
CastOutcomes == {-INT_MAX - 1, -1, 0, INT_MAX}
\* Average times n/d ms, from a microsecond to a minute.
AvgNumerators == (1..70) \cup {100, 250, 333, 500, 999, 1000, 1001, 60000}
AvgDenominators == {1, 3, 1000}

\* The slots the cycle's sum loop reads, and the slot its push wrote.
SlotsRead(e) == 0..(e.rolling_count - 1)
InArray(k) == k \in 0..(MAX_ROLLING - 1)

\* C28: the window of a cycle lies in 2..16 for every average time above 0,
\* every push leaves rolling_head in 0..window_size-1, and every slot read
\* or written lies in the 16-slot array, also when the window changes.
C28_RingInArray ==
    /\ [](/\ \A n \in AvgNumerators, d \in AvgDenominators :
                ClampWindow(WindowQuotient(n, d)) \in 2..MAX_ROLLING
          /\ \A w \in CastOutcomes : ClampWindow(w) \in 2..MAX_ROLLING
          /\ \A i \in 1..Len(eventsCache) :
                /\ InArray(eventsCache[i].rolling_head)
                /\ SlotsRead(eventsCache[i]) \subseteq 0..(MAX_ROLLING - 1))
    /\ [][cycles' # cycles =>
             \A dets \in RingFrames, avg \in RingAvgTimes :
                 Output(dets, avg, {}) =>
                    /\ WindowSize(avg) \in 2..MAX_ROLLING
                    /\ \A i \in 1..Len(eventsCache') :
                          eventsCache'[i].rolling_head \in 0..(WindowSize(avg) - 1)]_vars

\* Two cycles at window 16 filled a ring up to its last slot.
C28_Witness ==
    /\ \E i \in 1..Len(eventsCache) :
          eventsCache[i].rolling_head = MAX_ROLLING - 1 /\ eventsCache[i].rolling_count >= 15
    /\ cycles >= 2

\* C29 as stated: the detection box handed back with a crop lies inside the
\* crop, for every detection geometry and every non-negative border.
C29_Original ==
    result.buf # <<>> =>
        /\ result.x >= 0 /\ result.y >= 0 /\ result.w >= 1 /\ result.h >= 1
        /\ result.x + result.w <= result.img_w
        /\ result.y + result.h <= result.img_h

(* ---------------- failures that are not in a row ---------------- *)
\* A step that is a call in which every job succeeds.
SucceededStep ==
    /\ JobRuns("none")
    /\ \E rows \in InferRows : Model_Inference(TRUE, 1, "none", rows)

\* C30 as stated: the error budget counts failures in a row, so a cycle in
\* which every job succeeds puts the budget back to its full 5 and the model
\* is not stopped by failures that have successful cycles between them.
C30_Original ==
    [][SucceededStep => inferenceErrors' = 5]_vars

(* ---------------- the model after a new set-up ---------------- *)
\* A step that is a call with a frame on a running model, with settings, in
\* which no job fails.
CleanCallStep ==
    /\ modelState /\ settings.present
    /\ \E rows \in InferRows : Model_Inference(TRUE, 1, "none", rows)
\* The call handed a list of detections back (an empty one included) and
\* left the model running.
ListReturned == detections' # <<>> /\ modelState'

\* C31 as stated: when the budget was spent, the model stopped and
\* Model_Setup has set it up again, a call whose jobs succeed returns a list
\* of detections and does not stop the model again.
C31_Original ==
    [][(restarted /\ CleanCallStep) => ListReturned]_vars

(* ---------------- the suppressor's overlap ---------------- *)
\* The value non_maximum_suppression gets from iou() for two detections, as
\* the pair (intersection, union).
SuppressorIou(d, a) ==
    iou(d.box[1].x, d.box[1].y, d.box[1].w, d.box[1].h,
        a.box[1].x, a.box[1].y, a.box[1].w, a.box[1].h)
\* Two pairs (intersection, union) with unions above 0 name the same quotient.
SameQuotient(v, t) == v.inter * t.union = t.inter * v.union

\* C32 as stated: for every two detections handed to the suppressor, the
\* overlap it compares with the threshold is the intersection over union of
\* their stored boxes [x, x+w] x [y, y+h], also for boxes of different sizes.
C32_Original ==
    \A i \in 1..Len(decoded), j \in 1..Len(decoded) :
        i < j => SameQuotient(SuppressorIou(decoded[i], decoded[j]),
                              BoxOverlap(decoded[i], decoded[j]))

(* ---------------- the suppressor on lists of three ---------------- *)
\* Hands of one size in a row, each overlapping its neighbour by half and
\* touching the next but one, with two confidences; and a small hand.
NmsHands ==
    {Row(<<1>>, c, x, 200, 100, 100) : c \in {60, 80}, x \in {200, 250, 300}}
    \cup {HandSmall}
NmsRows ==
    {<<>>} \cup {<<a>> : a \in NmsHands}
           \cup {<<a, b>> : a \in NmsHands, b \in NmsHands}
           \cup {<<a, b, c>> : a \in NmsHands, b \in NmsHands, c \in NmsHands}
NmsSettings ==
    {[present |-> TRUE, prioritize |-> <<>>, minEventDuration |-> <<>>,
      frames |-> <<>>, cropping |-> NoCropping]}
NmsInit == InitCommon /\ settings \in NmsSettings
NmsCycle ==
    \E rows \in NmsRows :
        /\ currentRefId + Len(rows) <= MaxRefId + 1
        /\ Model_Inference(TRUE, 1, "none", rows)
NmsNext == NmsCycle \/ Model_Reset
NmsSpec == NmsInit /\ [][NmsNext]_vars

\* C33: no two detections of the returned list overlap, by the suppressor's
\* own iou(), by more than the NMS threshold.
C33_NoOverlapLeft ==
    detections # <<>> =>
        \A i \in 1..Len(Returned), j \in 1..Len(Returned) :
            i # j => ~IouOverNms(Returned[i], Returned[j])

\* Three detections went in, each overlapping another one, and the two at
\* the ends came out.
C33_Witness ==
    /\ Len(decoded) = 3 /\ detections # <<>>
    /\ IouOverNms(decoded[1], decoded[2]) /\ IouOverNms(decoded[2], decoded[3])
    /\ Returned = <<decoded[1], decoded[3]>>

\* The item at position k of the list before suppression is in the returned list.
Survives(k) == \E m \in 1..Len(Returned) : Returned[m] = decoded[k]
\* Every other detection has a lower confidence.
StrictlyHighest(k) ==
    \A m \in 1..Len(decoded) : m # k => decoded[m].c < decoded[k].c
\* Every detection that overlaps the one at k has a lower confidence, or the
\* same confidence and an earlier place in the list.
WinsAllComparisons(k) ==
    \A m \in 1..Len(decoded) :
        (m # k /\ IouOverNms(decoded[m], decoded[k])) =>
            \/ decoded[m].c < decoded[k].c
            \/ decoded[m].c = decoded[k].c /\ m < k

Removed(k) == k \in 1..Len(decoded) /\ ~Survives(k)

\* C35 as stated: every detection the suppressor removes overlaps, by more
\* than the threshold, a detection that survives and whose confidence is at
\* least its own.
C35_Original ==
    detections # <<>> =>
        \A k \in 1..Len(decoded) :
            Removed(k) =>
                \E m \in 1..Len(decoded) :
                    /\ m # k /\ Survives(m)
                    /\ IouOverNms(decoded[m], decoded[k])
                    /\ decoded[m].c >= decoded[k].c

(* ---------------- the order of the events of a label ---------------- *)
\* The events evts, in order, go on alternating for every label: a rising
\* one only for a label with no open event, a falling one only for a label
\* with an open event.
RECURSIVE Alternates(_, _)
Alternates(open, evts) ==
    IF evts = <<>> THEN TRUE
    ELSE /\ IF Head(evts).state THEN Head(evts).label \notin open
            ELSE Head(evts).label \in open
         /\ Alternates(OpenAfter(open, <<Head(evts)>>), Tail(evts))

\* C36 as stated: between resets the events of a label alternate rising,
\* falling, rising, ..., beginning with a rising one.
C36_Original ==
    [][Alternates(openEvents, fired')]_vars

(* ---------------- the sink across a reset ---------------- *)
\* C37 as stated: Output_reset leaves no label HIGH at the event sink: a
\* label that is HIGH when the reset runs gets its falling event at the
\* reset, or stays HIGH in the table so that a later sweep can lower it.
C37_Original ==
    [][Output_reset =>
          \A i \in 1..Len(eventsCache) :
              eventsCache[i].state = 1 =>
                  \/ FallingCount(fired', eventsCache[i].name) = 1
                  \/ High(eventsCache', eventsCache[i].name)]_vars

(* ---------------- Output statement by statement, the sweep between ---------------- *)
\* A cycle of Output on a frame that shows label 1 once, with no cropping,
\* taken one statement (or one group of statements that touch neither state
\* nor last_detect_time) at a time; the sweep and the clock may act between
\* any two of them.
RaceLabel == <<1>>
RaceSettings ==
    [present : {TRUE}, prioritize : {<<"speed">>, <<"accuracy">>},
     minEventDuration : {<<1500>>}, frames : FramesItems, cropping : {NoCropping}]
RaceInit == InitCommon /\ settings \in RaceSettings
At(place) == outputPc.at = place
\* The entry the cycle under way works on.
RaceEvt == eventsCache[outputPc.evt]
\* What no statement of the gate touches.
RaceFrame ==
    UNCHANGED <<now, settings, output_tensor, appeared, restarted, seenAt, streak,
                cropCache, original_rgb_buffer, result, cycles, inferenceErrors,
                currentRefId, modelState, served, detections, decoded, jpegLive>>
\* A statement that writes the entry and publishes nothing.
RaceWrite(e, place) ==
    /\ eventsCache' = [eventsCache EXCEPT ![outputPc.evt] = e]
    /\ outputPc' = [outputPc EXCEPT !.at = place]
    /\ UNCHANGED <<fired, openEvents, riseTime>>
    /\ RaceFrame

\* "double now = ACAP_DEVICE_Timestamp();" and the reading of the settings.
RaceEnter ==
    /\ At("idle") /\ cycles < MaxCycles
    /\ cycles' = cycles + 1
    /\ outputPc' = [at |-> "lookup", t |-> now, evt |-> 0]
    /\ fired' = <<>>
    /\ UNCHANGED <<now, settings, output_tensor, appeared, restarted, seenAt, streak,
                   cropCache, original_rgb_buffer, result, inferenceErrors, eventsCache,
                   currentRefId, modelState, served, detections, decoded, jpegLive,
                   openEvents, riseTime>>
\* "LabelEventState* evt = find_or_create_label_state(label);"
RaceLookup ==
    /\ At("lookup")
    /\ \E fc \in {find_or_create_label_state(eventsCache, RaceLabel)} :
          /\ eventsCache' = fc.cache
          /\ outputPc' = [outputPc EXCEPT !.at = Prioritize(settings), !.evt = fc.evt]
    /\ UNCHANGED <<fired, openEvents, riseTime>>
    /\ RaceFrame
\* Speed mode: "if (evt->state == 0) {" ... "} else {".
RaceSpeedTest ==
    /\ At("speed")
    /\ outputPc' = [outputPc EXCEPT !.at = IF RaceEvt.state = 0 THEN "raise" ELSE "refresh"]
    /\ UNCHANGED <<eventsCache, fired, openEvents, riseTime>>
    /\ RaceFrame
\* "evt->state = 1;" in either mode.
RaceRaise ==
    /\ At("raise")
    /\ eventsCache' = [eventsCache EXCEPT ![outputPc.evt].state = 1]
    /\ riseTime' = [riseTime EXCEPT ![RaceLabel] = outputPc.t]
    /\ outputPc' = [outputPc EXCEPT !.at = "stamp"]
    /\ UNCHANGED <<fired, openEvents>>
    /\ RaceFrame
\* "evt->last_detect_time = now;" after the label was raised.
RaceStamp ==
    /\ At("stamp")
    /\ RaceWrite([RaceEvt EXCEPT !.last_detect_time = outputPc.t], "fire")
\* "ACAP_EVENTS_Fire_State(label, 1);" and the MQTT message.
RaceFire ==
    /\ At("fire")
    /\ fired' = <<Rising(RaceLabel, outputPc.t)>>
    /\ openEvents' = OpenAfter(openEvents, fired')
    /\ outputPc' = IF Prioritize(settings) = "speed" THEN Idle
                   ELSE [outputPc EXCEPT !.at = "tail"]
    /\ UNCHANGED <<eventsCache, riseTime>>
    /\ RaceFrame
\* Speed mode, label HIGH already: "evt->last_detect_time = now;".
RaceRefresh ==
    /\ At("refresh")
    /\ eventsCache' = [eventsCache EXCEPT ![outputPc.evt].last_detect_time = outputPc.t]
    /\ outputPc' = Idle
    /\ UNCHANGED <<fired, openEvents, riseTime>>
    /\ RaceFrame
\* Accuracy mode: the push of a 1 into the ring.
RacePush(avg) ==
    /\ At("accuracy")
    /\ RaceWrite(RollPush(RaceEvt, 1, WindowSize(avg)), "accstamp")
\* Accuracy mode: "evt->last_detect_time = now;" after the push.
RaceAccStamp ==
    /\ At("accstamp")
    /\ RaceWrite([RaceEvt EXCEPT !.last_detect_time = outputPc.t], "sum")
\* Accuracy mode: the sum loop and "if ((evt->state == 0) && (sum >= ...".
RaceSumTest ==
    /\ At("sum")
    /\ outputPc' = [outputPc EXCEPT !.at =
                       IF RaceEvt.state = 0 /\ RollingSum(RaceEvt) >= MinFrames(settings)
                       THEN "raise" ELSE "tail"]
    /\ UNCHANGED <<eventsCache, fired, openEvents, riseTime>>
    /\ RaceFrame
\* Accuracy mode: "if (evt->state == 1) evt->last_detect_time = now;" and,
\* the frame showing every tracked label, a loop over the unseen that finds none.
RaceTail ==
    /\ At("tail")
    /\ eventsCache' = IF RaceEvt.state = 1
                      THEN [eventsCache EXCEPT ![outputPc.evt].last_detect_time = outputPc.t]
                      ELSE eventsCache
    /\ outputPc' = Idle
    /\ UNCHANGED <<fired, openEvents, riseTime>>
    /\ RaceFrame

RaceCycle ==
    \/ RaceEnter \/ RaceLookup \/ RaceSpeedTest \/ RaceRaise \/ RaceStamp \/ RaceFire
    \/ RaceRefresh \/ (\E avg \in AvgTimes : RacePush(avg)) \/ RaceAccStamp
    \/ RaceSumTest \/ RaceTail
RaceNext == RaceCycle \/ Output_DeactivateExpired \/ Tick
RaceSpec == RaceInit /\ [][RaceNext]_vars

\* C38 as stated: with the sweep free to run between any two statements of
\* a cycle, a sweep finds no HIGH label with a last_detect_time older than
\* the label's rise, and lowers no label earlier than minEventDuration after
\* its rise.
C38_Original ==
    [][Output_DeactivateExpired =>
          \A i \in 1..Len(eventsCache) :
              (eventsCache[i].state = 1 /\ eventsCache[i].name = RaceLabel) =>
                  /\ eventsCache[i].last_detect_time >= riseTime[RaceLabel]
                  /\ FallingCount(fired', RaceLabel) > 0 =>
                         now - riseTime[RaceLabel] >= MinEventDuration(settings)]_vars

\* C39: a timeout sweep changes nothing but the state of the HIGH labels
\* whose timeout has expired: every entry keeps its name, ring, rolling_head,
\* rolling_count and last_detect_time, a LOW or unexpired entry is left as it
\* was, the table keeps its length and the crop cache its content; without
\* settings the sweep changes no entry and publishes nothing.
C39_SweepFrame ==
    [][Output_DeactivateExpired =>
          /\ Len(eventsCache') = Len(eventsCache)
          /\ cropCache' = cropCache
          /\ \A i \in 1..Len(eventsCache) :
                LET e == eventsCache[i]
                    late == (now - e.last_detect_time) > MinEventDuration(settings)
                IN /\ [eventsCache'[i] EXCEPT !.state = e.state] = e
                   /\ (e.state = 0 \/ ~late) => eventsCache'[i] = e
          /\ ~settings.present => (eventsCache' = eventsCache /\ fired' = <<>>)]_vars

\* In accuracy mode a sweep has just lowered a label whose ring still holds
\* detections, next to a LOW label with a ring of its own.
C39_Witness ==
    /\ AccuracyMode
    /\ \E i, j \in 1..Len(eventsCache) :
          /\ i # j
          /\ eventsCache[i].state = 0
          /\ RollingSum(eventsCache[i]) > 0
          /\ \E k \in 1..Len(fired) :
                fired[k] = Falling(eventsCache[i].name, now)
          /\ eventsCache[j].state = 0
          /\ eventsCache[j].rolling_count > 0
          /\ FallingCount(fired, eventsCache[j].name) = 0

\* C40: in every reachable state the crop cache holds at most
\* MODEL_MAX_CACHED_CROPS entries, no two of them with the same refId, and
\* every entry holds a JPEG buffer of a size above 0.
C40_CacheInvariant ==
    /\ Len(cropCache) <= MODEL_MAX_CACHED_CROPS
    /\ \A i, j \in 1..Len(cropCache) :
          cropCache[i].refId = cropCache[j].refId => i = j
    /\ \A i \in 1..Len(cropCache) :
          cropCache[i].jpeg_buf # <<>> /\ cropCache[i].jpeg_size > 0

\* The cache is full and the last request was answered from its first entry:
\* a refId stored earlier was asked for again.
C40_Witness ==
    /\ Len(cropCache) = MODEL_MAX_CACHED_CROPS
    /\ result.buf = <<cropCache[1].jpeg_buf>>
    /\ result.size = cropCache[1].jpeg_size

====
